---- MODULE Spec2Model ----
(***************************************************************************)
(* Session lifecycle of the Slack MCP server (src/index.ts): the registry  *)
(* `transports`, the POST /mcp handler with its two synchronous segments   *)
(* around `await server.connect( transport )`, the GET/DELETE handler, and *)
(* the two callbacks the handler installs on a transport                   *)
(* (onsessioninitialized, onclose).                                        *)
(*                                                                         *)
(* The transport itself (StreamableHTTPServerTransport) and randomUUID are *)
(* library code.  They are modelled at the call sites of src/index.ts by   *)
(* what they do to the state of this program: handleRequest on an          *)
(* initiation generates the session id once and calls onsessioninitialized;*)
(* handleRequest on a DELETE closes the transport, which calls onclose;    *)
(* randomUUID never returns the same value twice.                          *)
(*                                                                         *)
(* Identity enrichment of one session's SlackClient (src/slack-client.ts): *)
(* the credential and the userCache of each client, getUser and            *)
(* enrichMessages with their suspensions at fetch, and the upstream        *)
(* users.info as the environment that answers each lookup.                 *)
(***************************************************************************)
EXTENDS Integers, Sequences, FiniteSets, Bags, TLC

\* ------------------------------------------------------------------ bounds
\* Number of initiations (each constructs one SlackClient and one transport).
MaxTransports == 2
\* DELETE requests delivered to transports whose close() has not run yet.
MaxClosing == 2

\* ------------------------------------------------------------- input values
\* No enrichMessages call.
NoCall == [op |-> "none", client |-> 0, messages |-> << >>, pending |-> << >>,
           fetched |-> << >>, cachedAtStart |-> {}, priorFailed |-> {},
           failed |-> {}, state |-> "none", result |-> << >>]
\* The values randomUUID returns, in the order it returns them.
UuidSeq == <<"uuid-1", "uuid-2", "uuid-3", "uuid-4", "uuid-5", "uuid-6">>
Uuids == {UuidSeq[i] : i \in 1..MaxTransports}
\* Property names every object literal inherits from Object.prototype.
InheritedKeys == {"constructor"}
\* Header absent (undefined) and header empty are both falsy: "".
NoHeader == ""
SessionHeaders == {NoHeader} \cup Uuids \cup InheritedKeys
\* The credentials, in the order in which initiations first present them
\* (a credential is an opaque string to this layer).
TokenSeq == <<"xoxb-A", "xoxb-B">>
Tokens == {TokenSeq[i] : i \in 1..Len(TokenSeq)}
TokenHeaders == {NoHeader} \cup Tokens
\* req.body?.method; "tools/call" stands for every value other than
\* "initialize", undefined included (no body, a batch body).
BodyMethods == {"initialize", "tools/call"}
HttpMethods == {"POST", "GET", "DELETE"}

VARIABLES
    transports,   \* the registry object: own keys (session ids) -> transport
    tr,           \* every StreamableHTTPServerTransport constructed so far
    clients,      \* every SlackClient constructed so far
    nIssued,      \* number of values randomUUID has returned
    last,         \* the step just taken: the request, its branch, its response
    calls,        \* the enrichMessages calls with lookups outstanding (a bag)
    done,         \* the enrichMessages call that finished last
    nLookups      \* number of users.info requests sent to the upstream

vars == <<transports, tr, clients, nIssued, last, calls, done, nLookups>>

TransportIds == 1..Len(tr)

\* The credentials an initiation can present next: one already bound to a
\* client, or the first of TokenSeq that is not.
UsedTokens == {clients[c].token : c \in 1..Len(clients)}
NextTokens ==
    UsedTokens \cup {TokenSeq[i] : i \in {j \in 1..Len(TokenSeq) :
                                           \A k \in 1..(j - 1) : TokenSeq[k] \in UsedTokens}}

RECURSIVE Sum(_, _)
Sum(f, n) == IF n = 0 THEN 0 ELSE f[n] + Sum(f, n - 1)
\* Number of close() calls pending in all transports.
Closing == Sum([t \in TransportIds |-> tr[t].closing], Len(tr))

\* ------------------------------------------------------------------ helpers
\* const transports = {}
EmptyRegistry == [k \in {} |-> 0]

\* transports[sessionId] as a truthy value: an own entry, or a property the
\* object literal {} inherits from Object.prototype.
Lookup(reg, sid) == sid \in DOMAIN reg \/ sid \in InheritedKeys

\* The value of transports[sessionId]: a transport, or 0 for a value that is
\* no transport (an inherited property, whose handleRequest is undefined).
Resolve(reg, sid) == IF sid \in DOMAIN reg THEN reg[sid] ELSE 0

\* PostBranch with the credential check dropped from the initiation branch.
PostBranch_NoCredentialCheck(reg, sid, method, token) ==
    IF sid # NoHeader /\ Lookup(reg, sid) THEN "reuse"
    ELSE IF sid = NoHeader /\ method = "initialize" THEN "initiate"
         ELSE "badrequest"

\* PostBranch with the credential check hoisted above the payload check.
PostBranch_CredentialFirst(reg, sid, method, token) ==
    IF sid # NoHeader /\ Lookup(reg, sid) THEN "reuse"
    ELSE IF sid = NoHeader /\ token = NoHeader THEN "unauthorized"
    ELSE IF sid = NoHeader /\ method = "initialize" THEN "initiate"
         ELSE "badrequest"

\* PostBranch with the initiation branch tested first, whatever the session id.
PostBranch_InitiateFirst(reg, sid, method, token) ==
    IF method = "initialize" /\ token # NoHeader THEN "initiate"
    ELSE IF sid # NoHeader /\ Lookup(reg, sid) THEN "reuse"
    ELSE IF sid = NoHeader /\ method = "initialize" THEN "unauthorized"
         ELSE "badrequest"

\* The branch the POST handler takes.
PostBranch(reg, sid, method, token) ==
    IF sid # NoHeader /\ Lookup(reg, sid) THEN "reuse"
    ELSE IF sid = NoHeader /\ method = "initialize"
         THEN IF token = NoHeader THEN "unauthorized" ELSE "initiate"
         ELSE "badrequest"

\* The branch of the GET/DELETE handler.
SessionBranch(reg, sid) ==
    IF sid = NoHeader \/ ~Lookup(reg, sid) THEN "invalid" ELSE "reuse"

\* What the handler itself writes to res; "forwarded" is left to the transport.
Response(handler, branch) ==
    CASE branch = "unauthorized" ->
            [status |-> 401, envelope |-> TRUE, code |-> -32000,
             message |-> "Unauthorized: Missing X-Slack-Token header"]
      [] branch = "badrequest" ->
            [status |-> 400, envelope |-> TRUE, code |-> -32000,
             message |-> "Bad Request: No valid session ID provided"]
      [] branch = "invalid" ->
            [status |-> 400, envelope |-> FALSE, code |-> 0,
             message |-> "Invalid or missing session ID"]
      [] branch = "fault" /\ handler = "POST" ->
            [status |-> 500, envelope |-> TRUE, code |-> -32603,
             message |-> "Internal server error"]
      [] OTHER ->
            [status |-> 0, envelope |-> FALSE, code |-> 0, message |-> ""]

\* A generator that returns the same value on every call.
GenerateId_Constant(n) == UuidSeq[1]

\* sessionIdGenerator: the n-th value randomUUID returns.
GenerateId(n) == UuidSeq[n]

\* Register with `transport` shared by all handlers (declared outside the
\* request handler): every entry ends up referring to the latest transport.
Register_Shared(reg, sid, t) == [k \in DOMAIN reg \cup {sid} |-> t]

\* onsessioninitialized: transports[sessionId] = transport
Register(reg, sid, t) ==
    [k \in DOMAIN reg \cup {sid} |-> IF k = sid THEN t ELSE reg[k]]

\* The closure leaves the entry where it is.
Unregister_Keeps(reg, sid) == reg

\* onclose that resets the whole registry.
Unregister_ClearsAll(reg, sid) == EmptyRegistry

\* onclose that removes by position: an absent id removes another entry.
Unregister_Splice(reg, sid) ==
    IF sid \in DOMAIN reg THEN [k \in DOMAIN reg \ {sid} |-> reg[k]]
    ELSE IF DOMAIN reg = {} THEN reg
    ELSE LET victim == CHOOSE k \in DOMAIN reg : TRUE
         IN  [k \in DOMAIN reg \ {victim} |-> reg[k]]

\* onclose with the guard on transport.sessionId inverted.
Unregister_GuardInverted(reg, sid) ==
    IF sid = NoHeader THEN [k \in DOMAIN reg \ {sid} |-> reg[k]] ELSE reg

\* onclose: if ( transport.sessionId ) delete transports[transport.sessionId]
Unregister(reg, sid) ==
    IF sid # NoHeader THEN [k \in DOMAIN reg \ {sid} |-> reg[k]] ELSE reg

\* private userCache: Map<string, any> = new Map()
EmptyCache == [k \in {} |-> 0]

\* Every client is given the first credential.
NewClient_FirstToken(token) == [token |-> TokenSeq[1], userCache |-> EmptyCache]

\* new SlackClient( token ): the credential and an empty identity cache.
NewClient(token) == [token |-> token, userCache |-> EmptyCache]

\* Every transport is connected to the client of the first initiation.
NewTransport_FirstClient(c, wellFormed) ==
    [client |-> 1, sessionId |-> NoHeader, initialized |-> FALSE,
     phase |-> "connecting", connected |-> FALSE, wellFormed |-> wellFormed,
     closing |-> 0, closed |-> FALSE]

\* new StreamableHTTPServerTransport(...) of one initiation, with the server
\* built from that request's client about to be connected to it.
NewTransport(c, wellFormed) ==
    [client |-> c, sessionId |-> NoHeader, initialized |-> FALSE,
     phase |-> "connecting", connected |-> FALSE, wellFormed |-> wellFormed,
     closing |-> 0, closed |-> FALSE]

\* The record of one step: the request handled, the branch taken, the
\* transport it was forwarded to (0: none) and what the handler answered.
Step(event, method, sid, body, token, branch, t, resp) ==
    [event |-> event, method |-> method, sid |-> sid, body |-> body,
     token |-> token, branch |-> branch, transport |-> t, resp |-> resp]


\* --------------------------------------------------------------------- Init
Init ==
    /\ transports = EmptyRegistry
    /\ tr = << >>
    /\ clients = << >>
    /\ nIssued = 0
    /\ last = Step("start", "", NoHeader, "", NoHeader, "", 0, Response("", ""))
    /\ calls = EmptyBag
    /\ done = NoCall
    /\ nLookups = 0

\* ------------------------------------------------------------------ actions
\* app.post( '/mcp' ), from the start of the handler to its first suspension
\* (await server.connect) or to its return.  wellFormed: whether the transport
\* will accept the request (Accept/Content-Type headers, a body that parses as
\* an initialize request); the handler does not look at it.
Post(sid, body, token, wellFormed) ==
    LET branch == PostBranch(transports, sid, body, token)
        t == Resolve(transports, sid)
    IN  CASE branch = "reuse" /\ t # 0 ->
                \* transport.handleRequest( req, res, req.body ) on the entry
                /\ last' = Step("request", "POST", sid, body, token, "reuse", t,
                                Response("POST", "forwarded"))
                /\ UNCHANGED <<transports, tr, clients, nIssued>>
          [] branch = "reuse" /\ t = 0 ->
                \* the value found is no transport: handleRequest is not a
                \* function, the TypeError is caught by the handler's catch
                /\ last' = Step("request", "POST", sid, body, token, "fault", 0,
                                Response("POST", "fault"))
                /\ UNCHANGED <<transports, tr, clients, nIssued>>
          [] branch = "initiate" ->
                /\ Len(tr) < MaxTransports
                /\ clients' = Append(clients, NewClient(token))
                /\ tr' = Append(tr, NewTransport(Len(clients) + 1, wellFormed))
                /\ last' = Step("request", "POST", sid, body, token, "initiate",
                                Len(tr) + 1, Response("POST", "forwarded"))
                /\ UNCHANGED <<transports, nIssued>>
          [] OTHER ->
                /\ last' = Step("request", "POST", sid, body, token, branch, 0,
                                Response("POST", branch))
                /\ UNCHANGED <<transports, tr, clients, nIssued>>

\* The handler goes on without the connection having completed.
AwaitConnect_Missing(trec) == [trec EXCEPT !.phase = "handling"]

\* await server.connect( transport ) has completed: the server is connected
\* to the transport and the handler goes on to handleRequest.
AwaitConnect(trec) == [trec EXCEPT !.connected = TRUE, !.phase = "handling"]

\* The initiation handler resumes after await server.connect( transport ) and
\* runs transport.handleRequest: the transport accepts a well-formed
\* initialize request once, generates its session id and calls
\* onsessioninitialized; any other request it answers with an error itself.
PostResume(t) ==
    /\ t \in TransportIds
    /\ tr[t].phase = "connecting"
    /\ IF tr[t].wellFormed /\ ~tr[t].initialized
       THEN LET id == GenerateId(nIssued + 1)
            IN  /\ nIssued' = nIssued + 1
                /\ tr' = [tr EXCEPT ![t] = [AwaitConnect(@) EXCEPT
                                              !.sessionId = id, !.initialized = TRUE]]
                /\ transports' = Register(transports, id, t)
       ELSE /\ tr' = [tr EXCEPT ![t] = AwaitConnect(@)]
            /\ UNCHANGED <<transports, nIssued>>
    /\ last' = Step("resume", "POST", NoHeader, "initialize",
                    clients[tr[t].client].token, "initiate", t,
                    Response("POST", "forwarded"))
    /\ UNCHANGED clients

\* handleSessionRequest, for GET and DELETE.  A DELETE the transport accepts
\* makes it call close(); the call is pending until OnClose(t).
SessionRequest(method, sid, wellFormed) ==
    LET branch == SessionBranch(transports, sid)
        t == Resolve(transports, sid)
    IN  CASE branch = "reuse" /\ t # 0 ->
                /\ IF method = "DELETE" /\ wellFormed
                   THEN /\ Closing < MaxClosing
                        /\ tr' = [tr EXCEPT ![t].closing = @ + 1]
                   ELSE UNCHANGED tr
                /\ last' = Step("request", method, sid, "", NoHeader, "reuse", t,
                                Response(method, "forwarded"))
                /\ UNCHANGED <<transports, clients, nIssued>>
          [] branch = "reuse" /\ t = 0 ->
                \* TypeError in an async handler without a catch: the promise
                \* rejects; the framework answers 500 or not at all (0)
                /\ \E st \in {0, 500} :
                     last' = Step("request", method, sid, "", NoHeader, "fault", 0,
                                  [Response(method, "fault") EXCEPT !.status = st])
                /\ UNCHANGED <<transports, tr, clients, nIssued>>
          [] OTHER ->
                /\ last' = Step("request", method, sid, "", NoHeader, branch, 0,
                                Response(method, branch))
                /\ UNCHANGED <<transports, tr, clients, nIssued>>

\* transport.onclose, called by the transport's close().  close() runs once
\* for each DELETE the transport accepted, possibly after further requests
\* have been delivered, so the callback can run again for a closed transport.
OnClose(t) ==
    /\ t \in TransportIds
    /\ tr[t].closing > 0
    /\ tr' = [tr EXCEPT ![t].closing = @ - 1, ![t].closed = TRUE]
    /\ transports' = Unregister(transports, tr[t].sessionId)
    /\ last' = Step("onclose", "", tr[t].sessionId, "", NoHeader,
                    IF tr[t].closed THEN "again" ELSE "first", t, Response("", ""))
    /\ UNCHANGED <<clients, nIssued>>

Next ==
    \/ \E sid \in SessionHeaders, body \in BodyMethods, token \in TokenHeaders,
          wellFormed \in BOOLEAN :
            \* only an initiation hands wellFormed on to a later step
            /\ wellFormed \/ PostBranch(transports, sid, body, token) = "initiate"
            /\ PostBranch(transports, sid, body, token) = "initiate"
                  => token \in NextTokens \cup {NoHeader}
            /\ Post(sid, body, token, wellFormed)
            /\ UNCHANGED <<calls, done, nLookups>>
    \/ \E t \in TransportIds : PostResume(t) /\ UNCHANGED <<calls, done, nLookups>>
    \/ \E method \in {"GET", "DELETE"}, sid \in SessionHeaders,
          wellFormed \in BOOLEAN :
            /\ wellFormed \/ method = "DELETE"
            /\ SessionRequest(method, sid, wellFormed)
            /\ UNCHANGED <<calls, done, nLookups>>
    \/ \E t \in TransportIds : OnClose(t) /\ UNCHANGED <<calls, done, nLookups>>

Spec == Init /\ [][Next]_vars

\* ------------------------------------------------------------------- faults
\* An exception reaches the catch of the POST handler: server.connect or
\* transport.handleRequest rejects.  The transport is library code: it can
\* fail before or after it has written response headers, and an initiation
\* can fail before or after the transport has generated the session id and
\* called onsessioninitialized.

\* The catch removes the session the request named.
Caught_Destroys(reg, sid) == [k \in DOMAIN reg \ {sid} |-> reg[k]]

\* The registry after the catch block: it logs and answers, nothing else.
Caught(reg, sid) == reg

\* What the catch answers: the internal-error envelope if ( !res.headersSent ).
FaultBranch(headersSent) == IF headersSent THEN "faultsent" ELSE "fault"

\* await server.connect( transport ) rejects: no response has been started.
ConnectFault(t) ==
    /\ t \in TransportIds
    /\ tr[t].phase = "connecting"
    /\ tr' = [tr EXCEPT ![t].phase = "faulted"]
    /\ transports' = Caught(transports, NoHeader)
    /\ last' = Step("resume", "POST", NoHeader, "initialize",
                    clients[tr[t].client].token, FaultBranch(FALSE), t,
                    Response("POST", FaultBranch(FALSE)))
    /\ UNCHANGED <<clients, nIssued>>

\* The initiation handler resumes and transport.handleRequest rejects,
\* before (~registered) or after the transport has initialised the session.
HandleFault(t, registered, headersSent) ==
    /\ t \in TransportIds
    /\ tr[t].phase = "connecting"
    /\ registered => tr[t].wellFormed /\ ~tr[t].initialized
    /\ IF registered
       THEN LET id == GenerateId(nIssued + 1)
            IN  /\ nIssued' = nIssued + 1
                /\ tr' = [tr EXCEPT ![t] = [AwaitConnect(@) EXCEPT
                                              !.sessionId = id, !.initialized = TRUE,
                                              !.phase = "faulted"]]
                /\ transports' = Caught(Register(transports, id, t), NoHeader)
       ELSE /\ tr' = [tr EXCEPT ![t] = [AwaitConnect(@) EXCEPT !.phase = "faulted"]]
            /\ transports' = Caught(transports, NoHeader)
            /\ UNCHANGED nIssued
    /\ last' = Step("resume", "POST", NoHeader, "initialize",
                    clients[tr[t].client].token, FaultBranch(headersSent), t,
                    Response("POST", FaultBranch(headersSent)))
    /\ UNCHANGED clients

\* A POST is forwarded to the transport of a live session and
\* transport.handleRequest rejects.
ReuseFault(sid, body, token, headersSent) ==
    /\ PostBranch(transports, sid, body, token) = "reuse"
    /\ Resolve(transports, sid) # 0
    /\ transports' = Caught(transports, sid)
    /\ last' = Step("request", "POST", sid, body, token, FaultBranch(headersSent),
                    Resolve(transports, sid), Response("POST", FaultBranch(headersSent)))
    /\ UNCHANGED <<tr, clients, nIssued>>

\* The POST handler with its faults.
NextFault ==
    \/ \E sid \in SessionHeaders, body \in BodyMethods, token \in TokenHeaders,
          wellFormed \in BOOLEAN :
            /\ wellFormed \/ PostBranch(transports, sid, body, token) = "initiate"
            /\ PostBranch(transports, sid, body, token) = "initiate"
                  => token \in NextTokens \cup {NoHeader}
            /\ Post(sid, body, token, wellFormed)
            /\ UNCHANGED <<calls, done, nLookups>>
    \/ \E t \in TransportIds : PostResume(t) /\ UNCHANGED <<calls, done, nLookups>>
    \/ \E t \in TransportIds : ConnectFault(t) /\ UNCHANGED <<calls, done, nLookups>>
    \/ \E t \in TransportIds, registered \in BOOLEAN, headersSent \in BOOLEAN :
            HandleFault(t, registered, headersSent)
              /\ UNCHANGED <<calls, done, nLookups>>
    \/ \E sid \in SessionHeaders, body \in BodyMethods, token \in TokenHeaders,
          headersSent \in BOOLEAN :
            ReuseFault(sid, body, token, headersSent)
              /\ UNCHANGED <<calls, done, nLookups>>

SpecFault == Init /\ [][NextFault]_vars

\* ------------------------------------------------------------------ claims
\* A session identifier that maps to a live session: an own entry of the
\* registry.
Live(reg, sid) == sid # NoHeader /\ sid \in DOMAIN reg

\* The three outcomes of the specification, from the step's record.
Outcome(step) ==
    CASE step.branch = "reuse" -> "Reuse"
      [] step.branch = "initiate" -> "Initiate"
      [] step.branch \in {"unauthorized", "badrequest", "invalid"} -> "Reject"
      [] OTHER -> "Fault"

ExpectedOutcome(reg, sid, body, token) ==
    IF Live(reg, sid) THEN "Reuse"
    ELSE IF sid = NoHeader /\ body = "initialize" /\ token # NoHeader THEN "Initiate"
    ELSE "Reject"

IsRequest(step, methods) == step.event = "request" /\ step.method \in methods

NothingChanges == UNCHANGED <<transports, tr, clients, nIssued>>

\* C1: every POST is a Reuse iff its session id maps to a live session, an
\* Initiate iff it has no session id, an initialize payload and a credential,
\* and a Reject in every other combination.
C1_PostOutcome ==
    [][IsRequest(last', {"POST"})
         => Outcome(last') = ExpectedOutcome(transports, last'.sid, last'.body,
                                             last'.token)]_vars

\* C2: a request that is neither a Reuse nor an Initiate (POST, GET or DELETE)
\* leaves the registry as it was and constructs no client and no transport.
C2_RejectedChangesNothing ==
    [][/\ IsRequest(last', {"POST"})
          /\ ExpectedOutcome(transports, last'.sid, last'.body, last'.token) = "Reject"
          => NothingChanges
       /\ IsRequest(last', {"GET", "DELETE"}) /\ ~Live(transports, last'.sid)
          => NothingChanges]_vars

\* An initiation without a credential was just rejected while a session is
\* live: the registry still holds exactly that session.
C2_Witness ==
    /\ IsRequest(last, {"POST"})
    /\ last.sid = NoHeader /\ last.body = "initialize" /\ last.token = NoHeader
    /\ last.branch = "unauthorized"
    /\ Cardinality(DOMAIN transports) = 1
    /\ Len(tr) = 1 /\ Len(clients) = 1

NoValidSessionEnvelope(resp) ==
    /\ resp.envelope
    /\ resp.code = -32000
    /\ resp.message = "Bad Request: No valid session ID provided"
    /\ resp.message # Response("POST", "unauthorized").message

NonInitiation(step) ==
    \/ IsRequest(step, {"GET", "DELETE"})
    \/ IsRequest(step, {"POST"}) /\ step.body # "initialize"

C4_RemovedOnlyByOwnClose ==
    [][/\ \A sid \in DOMAIN transports :
             sid \notin DOMAIN transports'
               => last'.event = "onclose" /\ last'.transport = transports[sid]
       /\ last'.event = "onclose" /\ tr[last'.transport].sessionId # NoHeader
             => tr[last'.transport].sessionId \notin DOMAIN transports']_vars

\* The first closure of a session's transport has just removed its entry,
\* while the entry of another session is still there.
C4_Witness ==
    /\ last.event = "onclose" /\ last.branch = "first"
    /\ last.sid # NoHeader /\ last.sid \notin DOMAIN transports
    /\ DOMAIN transports # {}

\* C5: a closure signalled again for a transport that has already signalled
\* closure changes nothing in the registry, and no closure signal touches the
\* entry of another transport.
C5_RemoveIdempotent ==
    [][last'.event = "onclose"
         => /\ tr[last'.transport].closed => transports' = transports
            /\ \A sid \in DOMAIN transports :
                  transports[sid] # last'.transport
                    => sid \in DOMAIN transports'
                       /\ transports'[sid] = transports[sid]]_vars

\* The closure of one transport has just been signalled a second time while
\* another session is live.
C5_Witness ==
    /\ last.event = "onclose" /\ last.branch = "again"
    /\ last.sid \notin DOMAIN transports
    /\ DOMAIN transports # {}

\* The session behind a registry entry: its transport, that transport's
\* client and the client's credential.
SessionOf(reg, trs, cls, sid) ==
    [transport |-> reg[sid], sessionId |-> trs[reg[sid]].sessionId,
     client |-> trs[reg[sid]].client, credential |-> cls[trs[reg[sid]].client]]

\* C6: from its creation to its removal, the lookup of a session id returns the
\* same session (same transport, same client): no step changes the session of
\* an id that stays in the registry, and an id enters the registry with the
\* transport that generated it.
C6_LookupStable ==
    [][/\ \A sid \in DOMAIN transports \cap DOMAIN transports' :
             SessionOf(transports', tr', clients', sid)
               = SessionOf(transports, tr, clients, sid)
       /\ \A sid \in DOMAIN transports' \ DOMAIN transports :
             /\ last'.event = "resume"
             /\ transports'[sid] = last'.transport
             /\ tr'[last'.transport].sessionId = sid]_vars

\* Session 1 is still found under its id after a second session has been
\* created and removed and a request for the removed id has been rejected.
C6_Witness ==
    /\ Len(tr) = 2
    /\ tr[1].sessionId \in DOMAIN transports /\ transports[tr[1].sessionId] = 1
    /\ tr[2].closed /\ tr[2].sessionId # NoHeader
    /\ IsRequest(last, {"POST"}) /\ last.sid = tr[2].sessionId
    /\ last.branch = "badrequest"

\* C7: every registry entry refers to a fully constructed session: a transport
\* that exists, has its client, is initialized under the entry's id, and whose
\* server has finished connecting.
C7_NoPartialSession ==
    \A sid \in DOMAIN transports :
        /\ transports[sid] \in TransportIds
        /\ tr[transports[sid]].client \in 1..Len(clients)
        /\ tr[transports[sid]].connected
        /\ tr[transports[sid]].initialized
        /\ tr[transports[sid]].sessionId = sid

\* A request of a live session has just been handled while another initiation
\* is suspended at await server.connect.
C7_Witness ==
    /\ \E t \in TransportIds : tr[t].phase = "connecting"
    /\ IsRequest(last, HttpMethods) /\ last.branch = "reuse"
    /\ DOMAIN transports # {}

\* C8: the session ids of all transports ever initialized, removed ones
\* included, are pairwise distinct, and each registry entry is the entry of
\* the one transport that carries its id.
C8_FreshIds ==
    /\ \A t1, t2 \in TransportIds :
          t1 # t2 /\ tr[t1].sessionId # NoHeader
            => tr[t1].sessionId # tr[t2].sessionId
    /\ \A sid \in DOMAIN transports :
          \A t \in TransportIds : tr[t].sessionId = sid <=> transports[sid] = t

\* A session has just been created after an earlier session was removed.
C8_Witness ==
    /\ last.event = "resume"
    /\ tr[last.transport].sessionId \in DOMAIN transports
    /\ \E t \in TransportIds :
          /\ t # last.transport
          /\ tr[t].closed
          /\ tr[t].sessionId \notin DOMAIN transports

\* C9: no registry entry refers to a transport that has signalled closure.
C9_NoSessionOutlivesTransport ==
    \A sid \in DOMAIN transports : ~tr[transports[sid]].closed

\* One transport has signalled closure and has a further closure pending,
\* while another session is live.
C9_Witness ==
    /\ \E t \in TransportIds : tr[t].closed /\ tr[t].closing > 0
    /\ \E sid \in DOMAIN transports : ~tr[transports[sid]].closed

\* C10: a POST with the id of a live session takes the reuse path to the
\* registered transport, whatever its payload and credential header: nothing
\* is constructed and nothing changes.
C10_ReuseConstructsNothing ==
    [][IsRequest(last', {"POST"}) /\ Live(transports, last'.sid)
         => /\ last'.branch = "reuse"
            /\ last'.transport = transports[last'.sid]
            /\ NothingChanges]_vars

\* An initialize payload with a credential other than the session's own has
\* just been forwarded to the live session of its session id.
C10_Witness ==
    /\ IsRequest(last, {"POST"}) /\ last.branch = "reuse"
    /\ last.body = "initialize"
    /\ last.sid \in DOMAIN transports
    /\ last.token # NoHeader
    /\ last.token # clients[tr[transports[last.sid]].client].token
    /\ Len(tr) = 1 /\ Len(clients) = 1

\* ------------------------------------------------- identity cache and enrich
\* src/slack-client.ts: getUser and enrichMessages of one SlackClient, with the
\* upstream (users.info) as the environment.  A getUser call runs without
\* suspension up to its fetch, so an enrichMessages call issues all its
\* lookups in the step that starts it; each lookup then completes in a step
\* of its own, in any order, and the call goes on in the step that completes
\* its last lookup (or rejects in the step of its first rejected lookup).

\* users.info requests sent to the upstream.
MaxLookups == 3

UserIds == {"U1", "U2"}
\* message.user absent or empty: falsy.
NoUser == ""
\* The value undefined.
Undefined == [undefined |-> TRUE]

\* A message of user (NoUser: none) with a list of reactions; a message
\* without reactions (absent or empty: << >>); a message with one reaction by
\* two users.
Message(user, reactions) == [user |-> user, reactions |-> reactions]
Plain(user) == Message(user, << >>)
Reacted(user) == Message(user, <<[name |-> "eyes", users |-> <<"U2", "U1">>]>>)
\* The message lists handed to enrichMessages.
Batches ==
    { << >>,
      <<Plain("U1")>>,
      <<Plain(NoUser), Plain("U2")>>,
      <<Plain("U1"), Plain("U1"), Plain("U2")>>,
      <<Plain("U2"), Reacted("U1")>> }

\* A user record of the upstream, and what users.info can answer for a
\* lookup of id: the fetch or response.json() throws; ok: false; ok: true
\* without a user; the user's record; the same user with a changed profile;
\* a record carrying another id.
ForeignId == "U9"
UpstreamUser(id, name) ==
    [id |-> id, name |-> name, real_name |-> "R",
     profile |-> [display_name |-> name, email |-> "e"]]
Answers(id) ==
    {[throws |-> TRUE, ok |-> FALSE, user |-> Undefined],
     [throws |-> FALSE, ok |-> FALSE, user |-> Undefined],
     [throws |-> FALSE, ok |-> TRUE, user |-> Undefined],
     [throws |-> FALSE, ok |-> TRUE, user |-> UpstreamUser(id, "alice")],
     [throws |-> FALSE, ok |-> TRUE, user |-> UpstreamUser(id, "bob")],
     [throws |-> FALSE, ok |-> TRUE, user |-> UpstreamUser(ForeignId, "alice")]}

\* Authorization: `Bearer ${token}`
Bearer(token) == <<"Bearer", token>>

\* const stripped = { id, name, display_name: profile?.display_name }
Strip(u) == [id |-> u.id, name |-> u.name, display_name |-> u.profile.display_name]
\* { id: user_id }
Fallback(id) == [id |-> id]

\* data.ok && data.user
Found(answer) == answer.ok /\ answer.user # Undefined

\* this.userCache.get( id )
CacheGet(cache, id) == IF id \in DOMAIN cache THEN cache[id] ELSE Undefined
\* this.userCache.set( id, v )
CacheSet(cache, id, v) ==
    [k \in DOMAIN cache \cup {id} |-> IF k = id THEN v ELSE cache[k]]

\* What getUser( id ) returns for an answer that did not throw.
Resolved(id, answer) ==
    IF Found(answer) THEN Strip(answer.user) ELSE Fallback(id)

\* The failure is remembered too.
Stored_Fallback(cache, id, answer) ==
    CacheSet(cache, id, Resolved(id, answer))

\* The cache after getUser( id ) has handled an answer that did not throw.
Stored(cache, id, answer) ==
    IF Found(answer) THEN CacheSet(cache, id, Strip(answer.user)) ELSE cache

\* One cache for all clients.
WithCache_Static(cls, c, cache) ==
    [d \in 1..Len(cls) |-> [cls[d] EXCEPT !.userCache = cache]]

\* this.userCache of client c becomes cache.
WithCache(cls, c, cache) == [cls EXCEPT ![c].userCache = cache]

RECURSIVE FlatMap(_, _)
\* list.flatMap( f ), for a list of lists
FlatMap(list, n) ==
    IF n = 0 THEN << >> ELSE FlatMap(list, n - 1) \o list[n]

InSeq(x, list) == \E i \in 1..Len(list) : list[i] = x

\* No deduplication.
Dedupe_Missing(list, n) == SubSeq(list, 1, n)

RECURSIVE Dedupe(_, _)
\* [ ...new Set( list ) ]: the first occurrences, in order.
Dedupe(list, n) ==
    IF n = 0 THEN << >>
    ELSE LET rest == Dedupe(list, n - 1)
         IN  IF InSeq(list[n], rest) THEN rest ELSE Append(rest, list[n])

\* messages.map( m => m.user ).filter( Boolean )
MessageUserIds(batch) ==
    SelectSeq([i \in 1..Len(batch) |-> batch[i].user], LAMBDA u : u # NoUser)
\* messages.flatMap( m => m.reactions || [] ).flatMap( r => r.users || [] )
ReactionUserIds(batch) ==
    LET reactions == FlatMap([i \in 1..Len(batch) |-> batch[i].reactions], Len(batch))
    IN  FlatMap([j \in 1..Len(reactions) |-> reactions[j].users], Len(reactions))
AllUserIds(batch) ==
    LET refs == MessageUserIds(batch) \o ReactionUserIds(batch)
    IN  Dedupe(refs, Len(refs))

\* Every id is fetched, cached or not.
ToFetch_NoCacheCheck(ids, cache) == ids

\* The ids whose getUser call goes to the upstream: those without an entry
\* ( if ( cached ) return cached ).
ToFetch(ids, cache) == SelectSeq(ids, LAMBDA id : id \notin DOMAIN cache)

\* this.userCache.get( id ) || { id }
Render(cache, id) ==
    IF CacheGet(cache, id) # Undefined THEN CacheGet(cache, id) ELSE Fallback(id)

\* The records come out in reverse order.
Rewrite_Reversed(batch, cache) ==
    [i \in 1..Len(batch) |->
        LET m == batch[Len(batch) + 1 - i]
        IN  [user |-> IF m.user # NoUser THEN Render(cache, m.user) ELSE Undefined,
             reactions |-> [j \in 1..Len(m.reactions) |->
                 [name |-> m.reactions[j].name,
                  users |-> [k \in 1..Len(m.reactions[j].users) |->
                                Render(cache, m.reactions[j].users[k])]]]]]

\* A reference without an entry is left as it came.
Rewrite_NoFallback(batch, cache) ==
    [i \in 1..Len(batch) |->
        [user |-> IF batch[i].user # NoUser
                  THEN CacheGet(cache, batch[i].user) ELSE Undefined,
         reactions |-> [j \in 1..Len(batch[i].reactions) |->
             [name |-> batch[i].reactions[j].name,
              users |-> [k \in 1..Len(batch[i].reactions[j].users) |->
                            CacheGet(cache, batch[i].reactions[j].users[k])]]]]]

\* return messages.map( message => ({ ...message, user: ..., reactions: ... }) )
Rewrite(batch, cache) ==
    [i \in 1..Len(batch) |->
        [user |-> IF batch[i].user # NoUser
                  THEN Render(cache, batch[i].user) ELSE Undefined,
         reactions |-> [j \in 1..Len(batch[i].reactions) |->
             [name |-> batch[i].reactions[j].name,
              users |-> [k \in 1..Len(batch[i].reactions[j].users) |->
                            Render(cache, batch[i].reactions[j].users[k])]]]]]

\* The lookups a call issues: one fetch per id, with the client's headers.
Lookups(ids, token) ==
    [i \in 1..Len(ids) |-> [user |-> ids[i], auth |-> Bearer(token)]]

Remove(list, k) == SubSeq(list, 1, k - 1) \o SubSeq(list, k + 1, Len(list))

Running == BagToSet(calls)
ClientIds == 1..Len(clients)

\* await Promise.all( ... ) is over when no lookup of the call is outstanding;
\* the call then rewrites its messages from the cache and returns.
Settle(call, cache) ==
    IF call.state = "running" /\ call.pending = << >>
    THEN [call EXCEPT !.state = "returned",
                      !.result = Rewrite(call.messages, cache)]
    ELSE call

\* The calls of client c that the state still holds.
CallsOf(c) == {call \in Running \cup {done} : call.client = c}

\* A call is over for the model when it has an outcome and no lookup of it is
\* outstanding: it leaves calls and becomes done.
Over(call) == call.state # "running" /\ call.pending = << >>

\* A tool handler calls slackClient.enrichMessages( batch ) on client c.
\* fetched, cachedAtStart, priorFailed and failed record what the call did;
\* the code keeps none of them.
EnrichStart(c, batch) ==
    LET cache == clients[c].userCache
        ids == AllUserIds(batch)
        fetch == ToFetch(ids, cache)
        call == [op |-> "enrich", client |-> c, messages |-> batch,
                 pending |-> Lookups(fetch, clients[c].token),
                 fetched |-> fetch,
                 cachedAtStart |-> {ids[i] : i \in 1..Len(ids)} \cap DOMAIN cache,
                 priorFailed |-> UNION {x.failed : x \in CallsOf(c)},
                 failed |-> {},
                 state |-> "running", result |-> << >>]
        after == Settle(call, cache)
    IN  /\ nLookups + Len(fetch) <= MaxLookups
        /\ nLookups' = nLookups + Len(fetch)
        /\ IF Over(after)
           THEN done' = after /\ UNCHANGED calls
           ELSE calls' = calls (+) SetToBag({after}) /\ UNCHANGED done
        /\ UNCHANGED clients

\* The k-th outstanding lookup of call i completes with the upstream's answer:
\* getUser goes on after its awaits.
LookupDone(call, k, answer) ==
    LET c == call.client
        id == call.pending[k].user
        cache == IF answer.throws THEN clients[c].userCache
                 ELSE Stored(clients[c].userCache, id, answer)
        after == Settle([call EXCEPT
                           !.pending = Remove(@, k),
                           !.failed = IF ~answer.throws /\ ~Found(answer)
                                      THEN @ \cup {id} ELSE @,
                           !.state = IF answer.throws /\ @ = "running"
                                     THEN "rejected" ELSE @],
                        cache)
    IN  /\ IF Over(after)
           THEN done' = after /\ calls' = calls (-) SetToBag({call})
           ELSE /\ calls' = (calls (-) SetToBag({call})) (+) SetToBag({after})
                /\ UNCHANGED done
        /\ clients' = WithCache(clients, c, cache)
        /\ UNCHANGED nLookups

\* Two sessions have been initiated, each with its own credential.
InitEnrich ==
    /\ transports = Register(Register(EmptyRegistry, GenerateId(1), 1), GenerateId(2), 2)
    /\ tr = [t \in 1..2 |-> [AwaitConnect(NewTransport(t, TRUE)) EXCEPT
                                !.sessionId = GenerateId(t), !.initialized = TRUE]]
    /\ clients = [c \in 1..2 |-> NewClient(TokenSeq[c])]
    /\ nIssued = 2
    /\ last = Step("resume", "POST", NoHeader, "initialize", TokenSeq[2],
                   "initiate", 2, Response("POST", "forwarded"))
    /\ calls = EmptyBag
    /\ done = NoCall
    /\ nLookups = 0

NextEnrich ==
    \/ \E c \in ClientIds, batch \in Batches :
            EnrichStart(c, batch) /\ UNCHANGED <<transports, tr, nIssued, last>>
    \/ \E call \in Running :
         \E k \in 1..Len(call.pending) :
           \E answer \in Answers(call.pending[k].user) :
            LookupDone(call, k, answer) /\ UNCHANGED <<transports, tr, nIssued, last>>

SpecEnrich == InitEnrich /\ [][NextEnrich]_vars

\* ------------------------------------------------------- getUnreadChannels
\* A conversation with unread messages: a direct message with its user, or a
\* channel (is_im false, no user).
Dm(user) == [is_im |-> TRUE, user |-> user]
Channel == [is_im |-> FALSE, user |-> NoUser]
\* The lists of unread conversations that conversations.list answers with.
Unreads ==
    { <<Dm("U1"), Channel, Dm("U1")>>,
      <<Dm("U2")>> }

\* The users of the conversations are resolved once each.
UnreadUserIds_Deduped(list) ==
    LET ids == SelectSeq([i \in 1..Len(list) |-> list[i].user],
                         LAMBDA u : u # NoUser)
    IN  Dedupe(ids, Len(ids))

\* The ids getUser is called with: one call per conversation c with
\* c.is_im && c.user, in the order of the list.
UnreadUserIds(list) ==
    SelectSeq([i \in 1..Len(list) |-> IF list[i].is_im THEN list[i].user ELSE NoUser],
              LAMBDA u : u # NoUser)

\* The conversations of the list whose user is being fetched, in order.
UnreadSlots(list, cache) ==
    SelectSeq([i \in 1..Len(list) |-> i],
              LAMBDA i : /\ list[i].is_im /\ list[i].user # NoUser
                         /\ list[i].user \notin DOMAIN cache)

\* A tool handler calls slackClient.getUnreadChannels() on client c and the
\* listing has arrived: getUser is called for every direct message, and each
\* call runs up to its fetch or returns the cached entry.  result[i].user is
\* what getUser returned for conversation i (Undefined: nothing yet, or no
\* direct message).
UnreadStart(c, list) ==
    LET cache == clients[c].userCache
        ids == UnreadUserIds(list)
        fetch == ToFetch(ids, cache)
        slots == UnreadSlots(list, cache)
        call == [op |-> "unread", client |-> c, messages |-> list,
                 pending |-> [k \in 1..Len(fetch) |->
                                 [user |-> fetch[k], auth |-> Bearer(clients[c].token),
                                  slot |-> slots[k]]],
                 fetched |-> fetch,
                 cachedAtStart |-> {ids[i] : i \in 1..Len(ids)} \cap DOMAIN cache,
                 priorFailed |-> UNION {x.failed : x \in CallsOf(c)},
                 failed |-> {},
                 state |-> IF fetch = << >> THEN "returned" ELSE "running",
                 result |-> [i \in 1..Len(list) |->
                               [is_im |-> list[i].is_im,
                                user |-> IF list[i].is_im /\ list[i].user # NoUser
                                         THEN CacheGet(cache, list[i].user)
                                         ELSE Undefined]]]
    IN  /\ nLookups + Len(fetch) <= MaxLookups
        /\ nLookups' = nLookups + Len(fetch)
        /\ IF Over(call)
           THEN done' = call /\ UNCHANGED calls
           ELSE calls' = calls (+) SetToBag({call}) /\ UNCHANGED done
        /\ UNCHANGED clients

\* The k-th outstanding lookup of an unread listing completes: getUser goes
\* on after its awaits and its conversation gets what it returns; the
\* listing returns with its last lookup and rejects with the first that
\* throws.
UnreadLookupDone(call, k, answer) ==
    LET c == call.client
        id == call.pending[k].user
        cache == IF answer.throws THEN clients[c].userCache
                 ELSE Stored(clients[c].userCache, id, answer)
        rest == Remove(call.pending, k)
        after == [call EXCEPT
                    !.pending = rest,
                    !.failed = IF ~answer.throws /\ ~Found(answer)
                               THEN @ \cup {id} ELSE @,
                    !.result[call.pending[k].slot].user =
                        IF answer.throws THEN @ ELSE Resolved(id, answer),
                    !.state = IF @ # "running" THEN @
                              ELSE IF answer.throws THEN "rejected"
                              ELSE IF rest = << >> THEN "returned" ELSE @]
    IN  /\ IF Over(after)
           THEN done' = after /\ calls' = calls (-) SetToBag({call})
           ELSE /\ calls' = (calls (-) SetToBag({call})) (+) SetToBag({after})
                /\ UNCHANGED done
        /\ clients' = WithCache(clients, c, cache)
        /\ UNCHANGED nLookups

\* The tool calls of the first session: message tools and the unread listing,
\* in any interleaving.
NextUnread ==
    \/ \E batch \in Batches :
            EnrichStart(1, batch) /\ UNCHANGED <<transports, tr, nIssued, last>>
    \/ \E list \in Unreads :
            UnreadStart(1, list) /\ UNCHANGED <<transports, tr, nIssued, last>>
    \/ \E call \in Running :
         \E k \in 1..Len(call.pending) :
           \E answer \in Answers(call.pending[k].user) :
            /\ call.op = "enrich"
            /\ LookupDone(call, k, answer)
            /\ UNCHANGED <<transports, tr, nIssued, last>>
    \/ \E call \in Running :
         \E k \in 1..Len(call.pending) :
           \E answer \in Answers(call.pending[k].user) :
            /\ call.op = "unread"
            /\ UnreadLookupDone(call, k, answer)
            /\ UNCHANGED <<transports, tr, nIssued, last>>

SpecUnread == InitEnrich /\ [][NextUnread]_vars

\* ------------------------------------------- closure during an enrichment
\* The session a client belongs to is live: a tool call of the client can
\* only come in through a request forwarded to its registered transport.
Reachable(c) ==
    \E sid \in DOMAIN transports : tr[transports[sid]].client = c

\* The message lists with a fan-out: more than one user to resolve.
FanOuts == {batch \in Batches : Len(AllUserIds(batch)) > 1}

\* An outstanding lookup of some call completes.
Drain ==
    \E call \in Running :
      \E k \in 1..Len(call.pending) :
        \E answer \in Answers(call.pending[k].user) :
            /\ call.op = "enrich"
            /\ LookupDone(call, k, answer)
            /\ UNCHANGED <<transports, tr, nIssued, last>>

\* The first session with its fan-outs, the DELETE requests that carry
\* its session id (before and after its closure) and the closure of its
\* transport.
NextClose ==
    \/ \E batch \in FanOuts :
            /\ Reachable(1)
            /\ EnrichStart(1, batch)
            /\ UNCHANGED <<transports, tr, nIssued, last>>
    \/ Drain
    \/ /\ SessionRequest("DELETE", tr[1].sessionId, TRUE)
       /\ UNCHANGED <<calls, done, nLookups>>
    \/ OnClose(1) /\ UNCHANGED <<calls, done, nLookups>>

SpecClose == InitEnrich /\ [][NextClose]_vars

\* The same, when the upstream answers every lookup or the fetch fails: an
\* outstanding lookup completes eventually.
SpecCloseFair == SpecClose /\ WF_vars(Drain)

\* The same, with the tool calls of the two sessions one after the other: a
\* call starts when no lookup of an earlier call is outstanding.
NextSeq ==
    \/ \E c \in ClientIds, batch \in Batches :
            /\ calls = EmptyBag
            /\ EnrichStart(c, batch)
            /\ UNCHANGED <<transports, tr, nIssued, last>>
    \/ \E call \in Running :
         \E k \in 1..Len(call.pending) :
           \E answer \in Answers(call.pending[k].user) :
            LookupDone(call, k, answer) /\ UNCHANGED <<transports, tr, nIssued, last>>

SpecSeq == InitEnrich /\ [][NextSeq]_vars

\* ---------------------------------------------- claims on the identity cache
\* The calls the state holds: those with lookups outstanding and the one that
\* finished last.
Calls == {call \in Running \cup {done} : call.state # "none"}

Elems(list) == {list[i] : i \in 1..Len(list)}

\* The distinct user references of a message list: the top-level users and
\* the users of the reactions.
Refs(batch) ==
    UNION {{batch[i].user} \ {NoUser} : i \in 1..Len(batch)}
      \cup UNION {UNION {Elems(batch[i].reactions[j].users) :
                            j \in 1..Len(batch[i].reactions)} :
                     i \in 1..Len(batch)}

\* The records getUser can store for id: the stripped records of the answers.
Entries(id) == {Strip(a.user) : a \in {b \in Answers(id) : Found(b)}}

\* C11: sessions are isolated.  Every upstream lookup of a call carries the
\* credential of the call's own client; a step changes the cache of at most
\* one client, and only of a client one of whose own lookups is outstanding;
\* no step changes a credential; and a call that returns renders each user
\* from the cache of its own client.
C11_Isolated ==
    [][/\ \A call \in Running' : \A k \in 1..Len(call.pending) :
            call.pending[k].auth = Bearer(clients'[call.client].token)
       /\ \A c \in ClientIds :
            /\ clients'[c].token = clients[c].token
            /\ clients'[c].userCache # clients[c].userCache
                 => /\ \E call \in Running :
                         /\ call.client = c
                         /\ \A id \in DOMAIN clients'[c].userCache :
                              CacheGet(clients[c].userCache, id)
                                  # clients'[c].userCache[id]
                                => \E k \in 1..Len(call.pending) :
                                      call.pending[k].user = id
                    /\ \A d \in ClientIds \ {c} : clients'[d] = clients[d]
       /\ done' # done /\ done'.state = "returned"
            => \A i \in 1..Len(done'.messages) :
                 done'.messages[i].user # NoUser
                   => done'.result[i].user
                        = Render(clients'[done'.client].userCache,
                                 done'.messages[i].user)]_vars

\* The first session has an entry for U1; the second has none and a lookup
\* of U1 outstanding, sent with its own credential.
C11_Witness ==
    /\ "U1" \in DOMAIN clients[1].userCache
    /\ "U1" \notin DOMAIN clients[2].userCache
    /\ \E call \in Running :
         /\ call.client = 2
         /\ \E k \in 1..Len(call.pending) :
              call.pending[k] = [user |-> "U1", auth |-> Bearer(TokenSeq[2])]

\* C12: the credential of a session's client is the one its initiation
\* request supplied, and no step changes it.
C12_CredentialFixed ==
    [][/\ \A c \in 1..Len(clients) : clients'[c].token = clients[c].token
       /\ Len(clients') # Len(clients)
            => /\ Len(clients') = Len(clients) + 1
               /\ last'.branch = "initiate"
               /\ clients'[Len(clients')].token = last'.token]_vars

\* A non-initiation request carrying the other session's credential has just
\* been forwarded to a live session, which keeps its own credential.
C12_Witness ==
    /\ IsRequest(last, {"POST"}) /\ last.branch = "reuse"
    /\ last.body = "tools/call"
    /\ last.sid \in DOMAIN transports
    /\ Len(clients) = 2
    /\ last.token = clients[3 - tr[transports[last.sid]].client].token
    /\ last.token # clients[tr[transports[last.sid]].client].token

\* C13: an enrich call issues at most one lookup for each distinct user
\* reference of its batch, so at most k lookups for k distinct references,
\* and exactly k when none of them was cached.
C13_OneLookupPerId ==
    \A call \in Calls :
        /\ Len(call.fetched) = Cardinality(Elems(call.fetched))
        /\ Elems(call.fetched) \subseteq Refs(call.messages)
        /\ Len(call.fetched) <= Cardinality(Refs(call.messages))
        /\ call.cachedAtStart = {}
             => Len(call.fetched) = Cardinality(Refs(call.messages))

\* The batch U1, U1, U2 with nothing cached: two lookups are outstanding.
C13_Witness ==
    \E call \in Running :
        /\ call.messages = <<Plain("U1"), Plain("U1"), Plain("U2")>>
        /\ call.cachedAtStart = {}
        /\ Len(call.fetched) = 2
        /\ Len(call.pending) = 2

\* The output of a returned call has the shape of its input: as many records
\* in the same order (a record without a user has none, a record with a user
\* has one), each with its reactions in the original order and with as many
\* users in each.
SameShape(call) ==
    /\ Len(call.result) = Len(call.messages)
    /\ \A i \in 1..Len(call.messages) :
         /\ call.messages[i].user = NoUser <=> call.result[i].user = Undefined
         /\ Len(call.result[i].reactions) = Len(call.messages[i].reactions)
         /\ \A j \in 1..Len(call.messages[i].reactions) :
              /\ call.result[i].reactions[j].name = call.messages[i].reactions[j].name
              /\ Len(call.result[i].reactions[j].users)
                   = Len(call.messages[i].reactions[j].users)

\* C14 as stated: the output has the shape of the input, and the user of
\* every record with user U is an object whose id is U, whatever the upstream
\* returned for U.
C14_Original ==
    done.state = "returned"
      => /\ SameShape(done)
         /\ \A i \in 1..Len(done.messages) :
              done.messages[i].user # NoUser
                => done.result[i].user.id = done.messages[i].user

\* C14, amended: the output has the shape of the input, and the user of every
\* record with user U is either { id: U } or the stripped form of a record
\* the upstream returned for U, with the id that record carries.
C14_Amended ==
    done.state = "returned"
      => /\ SameShape(done)
         /\ \A i \in 1..Len(done.messages) :
              done.messages[i].user # NoUser
                => done.result[i].user
                     \in {Fallback(done.messages[i].user)}
                           \cup Entries(done.messages[i].user)

\* A call has returned a record without a user followed by a record enriched
\* with the upstream's record of its user.
C14_Witness ==
    /\ done.state = "returned"
    /\ Len(done.messages) = 2
    /\ done.messages[1].user = NoUser
    /\ done.result[1].user = Undefined
    /\ done.result[2].user = Strip(UpstreamUser(done.messages[2].user, "alice"))

\* C15 as stated: when the lookup of U failed during a call, every output
\* record of the call that referenced U has user { id: U }.
C15_Original ==
    done.state = "returned"
      => \A i \in 1..Len(done.messages) :
           done.messages[i].user \in done.failed
             => done.result[i].user = Fallback(done.messages[i].user)

\* C15, amended: when the lookup of U failed during a call, an output record
\* that referenced U has user { id: U } unless the cache of the session has
\* an entry for U, stored by another call of the session, and then the user
\* is such an entry; a record that references another identifier V is
\* rendered from V alone: an entry of V, or { id: V } when V has no entry.
C15_Amended ==
    done.state = "returned" /\ done.failed # {}
      => \A i \in 1..Len(done.messages) :
           LET id == done.messages[i].user
               cache == clients[done.client].userCache
           IN  id # NoUser
                 => /\ done.result[i].user \in {Fallback(id)} \cup Entries(id)
                    /\ done.result[i].user # Fallback(id) => id \in DOMAIN cache
                    /\ id \in done.failed /\ id \notin DOMAIN cache
                         => done.result[i].user = Fallback(id)
                    /\ id \notin done.failed /\ id \in DOMAIN cache
                         => done.result[i].user \in Entries(id)

\* The lookup of U2 failed and that of U1 succeeded in a call that has
\* returned: U2 is rendered as { id: U2 }, U1 with its record.
C15_Witness ==
    /\ done.state = "returned"
    /\ done.failed = {"U2"}
    /\ done.messages = <<Plain("U1"), Plain("U1"), Plain("U2")>>
    /\ done.result[3].user = Fallback("U2")
    /\ done.result[1].user \in Entries("U1")

C17_CachedNotFetched ==
    \A call \in Calls :
        /\ Elems(call.fetched) \cap call.cachedAtStart = {}
        /\ \A id \in Refs(call.messages) :
             id \in DOMAIN clients[call.client].userCache /\ call.state = "running"
               => id \in call.cachedAtStart \/ InSeq(id, call.fetched)
        /\ call.state = "returned"
             => \A i \in 1..Len(call.messages) :
                  call.messages[i].user \in call.cachedAtStart
                    => call.result[i].user
                         = clients[call.client].userCache[call.messages[i].user]

\* A call that found U1 and U2 cached has returned them without a lookup.
C17_Witness ==
    /\ done.state = "returned"
    /\ done.cachedAtStart = {"U1", "U2"}
    /\ done.fetched = << >>
    /\ done.messages = <<Plain("U1"), Plain("U1"), Plain("U2")>>
    /\ nLookups = 2

\* C18: the cache is append-only: an entry stays, with the same value.
C18_AppendOnly ==
    [][\A c \in ClientIds : \A id \in DOMAIN clients[c].userCache :
          /\ id \in DOMAIN clients'[c].userCache
          /\ clients'[c].userCache[id] = clients[c].userCache[id]]_vars

\* C19: no enrich call fails: none ends with an exception for its caller.
C19_NeverRejects ==
    \A call \in Calls : call.state # "rejected"

\* C20: enrich is a barrier: a call has an outcome for its caller only when
\* none of its lookups is outstanding.
C20_Barrier ==
    \A call \in Calls : call.state # "running" => call.pending = << >>

\* The outstanding lookups of a call for id.
Outstanding(call, id) ==
    {k \in 1..Len(call.pending) : call.pending[k].user = id}

\* The getUser calls of a call that found no entry: one per distinct
\* reference for enrichMessages, one per direct message for the unread
\* listing.
Misses(call) ==
    IF call.op = "unread"
    THEN Cardinality({i \in 1..Len(call.messages) :
                         /\ call.messages[i].is_im
                         /\ call.messages[i].user # NoUser
                         /\ call.messages[i].user \notin call.cachedAtStart})
    ELSE Cardinality(Refs(call.messages) \ call.cachedAtStart)

\* C21 as stated: concurrent resolutions of one identifier in one session are
\* coalesced: the upstream has at most one lookup of the session outstanding
\* for an identifier.
C21_Original ==
    \A call \in Running : \A id \in UserIds :
        Outstanding(call, id) # {}
          => /\ Cardinality(Outstanding(call, id)) = 1
             /\ CopiesIn(call, calls) = 1
             /\ \A other \in Running \ {call} :
                  other.client = call.client => Outstanding(other, id) = {}

\* C21, amended: resolutions are not coalesced.  Every getUser call that
\* finds no entry for its identifier sends a lookup of its own: a call sends
\* as many lookups as it makes getUser calls that miss the cache, whatever
\* lookups of the session are outstanding already.
C21_Amended ==
    \A call \in Calls :
        /\ Len(call.fetched) = Misses(call)
        /\ \A id \in Elems(call.fetched) : id \notin call.cachedAtStart
        /\ \A id \in UserIds :
             Cardinality(Outstanding(call, id))
                <= Cardinality({k \in 1..Len(call.fetched) : call.fetched[k] = id})

\* An unread listing with the same user in two conversations has two lookups
\* of U1 outstanding while a message tool of the session has a third.
C21_Witness ==
    \E call \in Running, other \in Running :
        /\ call.op = "unread" /\ other.op = "enrich"
        /\ call.client = other.client
        /\ Cardinality(Outstanding(call, "U1")) = 2
        /\ Outstanding(other, "U1") # {}

\* Every request that carries sid is rejected by the handler that gets it.
Unreachable(reg, sid) ==
    /\ \A body \in BodyMethods, token \in TokenHeaders :
         PostBranch(reg, sid, body, token) = "badrequest"
    /\ SessionBranch(reg, sid) = "invalid"

\* A call of client c has lookups outstanding.
InFlight(c) ==
    \E call \in Running : call.client = c /\ call.pending # << >>

\* C22: the closure of a session's transport while an enrich call of the
\* session has lookups outstanding removes the session at once and leaves the
\* call alone: the step of the closure changes no call, no cache and no
\* outstanding lookup; from then on every request with the session's id is
\* rejected; and the lookups still complete, so that every call of the
\* session comes to its end.
C22_ClosureLeavesFanOut ==
    /\ [][tr' # tr /\ last'.event = "onclose"
            => /\ calls' = calls /\ done' = done /\ clients' = clients
               /\ Unreachable(transports', last'.sid)]_vars
    /\ [](\A t \in TransportIds : tr[t].closed => Unreachable(transports, tr[t].sessionId))
    /\ [][last' # last /\ IsRequest(last', {"DELETE"}) /\ tr[1].closed
            => /\ last'.resp.status = 400
               /\ calls' = calls /\ done' = done /\ clients' = clients
               /\ transports' = transports /\ tr' = tr]_vars
    /\ (tr[1].closed /\ InFlight(1)) ~> (tr[1].closed /\ ~InFlight(1))

\* The transport of the first session has signalled closure while a call of
\* the session has two lookups outstanding.
C22_Witness ==
    /\ tr[1].closed
    /\ tr[1].sessionId \notin DOMAIN transports
    /\ \E call \in Running :
         /\ call.client = 1 /\ call.state = "running"
         /\ Len(call.pending) = 2

\* The step is a POST that ended in the catch of the handler.
Faulted(step) ==
    /\ step.method = "POST"
    /\ step.branch \in {"fault", "faultsent"}

\* The catch has answered with the internal-error envelope.
InternalError(resp) ==
    /\ resp.status = 500 /\ resp.envelope /\ resp.code = -32603
    /\ resp.message = "Internal server error"

\* C23 as stated: a fault while a POST is handled is answered with the
\* internal-error envelope when no response has been started, and the
\* registry is as it was: live sessions stay, and a faulted initiation leaves
\* no entry.
C23_Original ==
    [][last' # last /\ Faulted(last')
         => /\ last'.branch = "fault" => InternalError(last'.resp)
            /\ transports' = transports]_vars

\* C23, amended: a fault while a POST is handled is answered with the
\* internal-error envelope when no response has been started; every session
\* that was live before is still found, with the same transport; and the
\* registry is unchanged unless the fault hit an initiation after its
\* transport had initialised the session, in which case the new session's
\* entry stays registered.
C23_Amended ==
    [][last' # last /\ Faulted(last')
         => /\ last'.branch = "fault" => InternalError(last'.resp)
            /\ \A sid \in DOMAIN transports :
                 Lookup(transports', sid) /\ transports'[sid] = transports[sid]
            /\ \/ transports' = transports
               \/ /\ last'.event = "resume"
                  /\ ~tr[last'.transport].initialized
                  /\ tr'[last'.transport].initialized
                  /\ transports' = Register(transports,
                                            tr'[last'.transport].sessionId,
                                            last'.transport)
            /\ last'.event = "resume" /\ ~tr'[last'.transport].initialized
                 => tr'[last'.transport].sessionId \notin DOMAIN transports']_vars

\* An initiation has just faulted before its transport initialised a session,
\* with no response started: it is answered -32603 and has no entry, and the
\* session that was live before is still registered.
C23_Witness ==
    /\ last.event = "resume" /\ last.branch = "fault"
    /\ InternalError(last.resp)
    /\ Len(tr) = 2
    /\ ~tr[last.transport].initialized
    /\ \E sid \in DOMAIN transports : transports[sid] # last.transport

\* The initiations suspended at await server.connect.
InProgress(trs) == {t \in 1..Len(trs) : trs[t].phase = "connecting"}

\* C24: interleaved initiations are not cross-wired.  Whatever other
\* initiations are in progress, a session id that gets registered maps to the
\* transport of the request that generated it and leaves the other
\* initiations as they were; a closure callback removes no entry but the one
\* of its own transport; and each transport is connected, for good, to the
\* client built by its own request from that request's credential, which no
\* other transport shares.
C24_NotCrossWired ==
    /\ [][/\ \A sid \in DOMAIN transports' \ DOMAIN transports :
               /\ last'.event = "resume"
               /\ last'.transport \in InProgress(tr)
               /\ transports'[sid] = last'.transport
               /\ tr'[last'.transport].sessionId = sid
               /\ \A u \in InProgress(tr) \ {last'.transport} :
                    tr'[u] = tr[u] /\ tr[u].sessionId # sid
          /\ last'.event = "onclose"
               => \A sid \in DOMAIN transports \ DOMAIN transports' :
                    sid = tr[last'.transport].sessionId
                    /\ transports[sid] = last'.transport
          /\ \A t \in 1..Len(tr) : tr'[t].client = tr[t].client
          /\ Len(tr') # Len(tr)
               => /\ Len(tr') = Len(tr) + 1 /\ Len(clients') = Len(clients) + 1
                  /\ last'.event = "request" /\ last'.branch = "initiate"
                  /\ last'.transport = Len(tr')
                  /\ tr'[Len(tr')].client = Len(clients')
                  /\ clients'[Len(clients')].token = last'.token]_vars
    /\ [](\A t, u \in 1..Len(tr) :
            /\ tr[t].client \in 1..Len(clients)
            /\ tr[t].client = tr[u].client => t = u)

\* Two initiations with different credentials were in progress together and
\* finished in the opposite order: the second registered the first id, the
\* first has just registered the second, and each id maps to its own
\* transport with its own request's credential.
C24_Witness ==
    /\ Len(tr) = 2
    /\ last.event = "resume" /\ last.transport = 1
    /\ tr[1].sessionId = GenerateId(2) /\ tr[2].sessionId = GenerateId(1)
    /\ DOMAIN transports = {GenerateId(1), GenerateId(2)}
    /\ transports[GenerateId(1)] = 2 /\ transports[GenerateId(2)] = 1
    /\ clients[tr[1].client].token = last.token
    /\ clients[tr[2].client].token # last.token

====
